---- MODULE Spec2Model ----
(***************************************************************************)
(* Model of the PipelineRun controller of ks-devops:                       *)
(*   - Reconciler.Reconcile      (run reconciler: delete / orphan /         *)
(*                                trigger / poll)                           *)
(*   - SyncReconciler.Reconcile  (synchronizer of PipelineRuns from the     *)
(*                                external engine)                          *)
(*   - the builders CreateScm / CreatePipelineRun / getSCMRefName.          *)
(* The object store and the external engine are collaborators: every call   *)
(* to them is one atomic step that may succeed or fail, and other writers   *)
(* of the store may commit between two steps of a pass.                     *)
(***************************************************************************)
EXTENDS Integers, Sequences, FiniteSets, Bags, TLC

VARIABLES
    store,      \* the stored PipelineRun the run reconciler is invoked for
    pipeline,   \* the stored Pipeline definition
    remote,     \* result the external engine reports for the run
    issued,     \* number of run identifiers the engine has handed out (trigger successes)
    now,        \* logical clock read by time.Now()
    pc,         \* position of the Reconcile pass ("idle": no pass in flight)
    pr,         \* Reconcile's local copy of the record (line 64-72)
    prFresh,    \* no write was committed to the record since pr was read
    want,       \* labels/annotations handed to updateLabelsAndAnnotations
    updFresh,   \* no write was committed since prToUpdate was fetched
    desired,    \* status handed to updateStatus
    attempts,   \* completed attempts of retry.RetryOnConflict in updateStatus
    branch,     \* branch the pass took
    build,      \* pipelineBuild fetched from the engine in this pass
    calls,      \* engine calls made by the current pass
    writes,     \* store writes committed by the current pass, in order; meta: the stored
                \* labels/annotations after the write are those of the pass
    result,     \* (ctrl.Result, error) of the last finished pass
    spc,        \* position of the synchronizer pass
    runs,       \* stored PipelineRuns of the pipeline's namespace: a bag, List has no order
    jenkinsRuns,\* runs the engine reports for the pipeline
    sync,       \* locals and outcome of the synchronizer pass
    builder     \* a call of the builders: its arguments and what it returned

(* what a synchronizer pass leaves alone, and what a run reconciler pass
   leaves alone; neither touches builder *)
runVars == <<store, remote, issued, now, pc, pr, prFresh, want, updFresh,
             desired, attempts, branch, build, calls, writes, result, builder>>
syncVars == <<spc, runs, jenkinsRuns, sync, builder>>
vars == <<store, pipeline, remote, issued, now, pc, pr, prFresh, want, updFresh,
          desired, attempts, branch, build, calls, writes, result,
          spc, runs, jenkinsRuns, sync, builder>>

-----------------------------------------------------------------------------
(* Bounds of the model *)
MaxClock == 2       \* values of the logical clock
MaxTriggers == 2    \* trigger calls the engine answers with a new identifier
MaxRemote == 2      \* runs the engine reports for the pipeline
MaxPasses == 2      \* synchronizer passes

(* Program constants *)
RetrySteps == 5     \* retry.DefaultRetry.Steps
RequeueShort == 1   \* time.Second
RequeuePoll == 3    \* 3 * time.Second

JenkinsPipelineRunIDKey == "jenkins-pipelinerun-id"
JenkinsPipelineRunStatusKey == "jenkins-pipelinerun-status"
JenkinsPipelineRunStagesStatusKey == "jenkins-pipelinerun-stages-status"
PipelineNameLabelKey == "pipeline"
SCMRefNameLabelKey == "scm-ref-name"
PipelineRunOrphanKey == "orphan"
ForeignKey == "owner"
MultiBranchPipelineType == "multi-branch-pipeline"
NoScmPipelineType == "pipeline"
Namespace == "demo"
PipelineName == "pipeline-a"

-----------------------------------------------------------------------------
(* Go maps *)
EmptyMap == [k \in {} |-> ""]
Put(m, k, v) == [a \in (DOMAIN m) \cup {k} |-> IF a = k THEN v ELSE m[a]]
Del(m, k) == [a \in (DOMAIN m) \ {k} |-> m[a]]
Has(m, k) == k \in DOMAIN m

DeepEqual_Always(a, b) == TRUE

DeepEqual_Never(a, b) == FALSE

(* reflect.DeepEqual on the values compared in the code *)
DeepEqual(a, b) == a = b

(* strconv.Atoi on the identifiers that occur: the decimal numerals in range
   parse to their value, anything else is an error *)
AtoiRange == (-1)..20
AtoiOK(s) == \E n \in AtoiRange : ToString(n) = s
Atoi(s) == CHOOSE n \in AtoiRange : ToString(n) = s

(* identifier the engine hands out for its n-th triggered run *)
RunIDOf(n) == ToString(6 + n)

-----------------------------------------------------------------------------
(* PipelineRun methods *)

GetPipelineRunID(p) ==
    IF Has(p.annots, JenkinsPipelineRunIDKey)
    THEN [id |-> p.annots[JenkinsPipelineRunIDKey], exist |-> TRUE]
    ELSE [id |-> "", exist |-> FALSE]

HasStarted(p) == GetPipelineRunID(p).exist

Buildable(p) == p.buildable

IsMultiBranchPipeline(prSpec) == prSpec.Type = MultiBranchPipelineType

LabelAsAnOrphan(labels) == Put(labels, PipelineRunOrphanKey, "true")

IgnoreNotFound_Keep(err) == err

(* client.IgnoreNotFound: a not-found answer of the store is no error *)
IgnoreNotFound(err) == IF err = "not found" THEN "" ELSE err

NoRef(prSpec) == prSpec.PipelineRef.isNil \/ prSpec.PipelineRef.Name = ""

getSCMRefName_NoCheck(prSpec) ==
    IF IsMultiBranchPipeline(prSpec) /\ ~prSpec.SCM.isNil
    THEN [branch |-> prSpec.SCM.RefName, err |-> ""]
    ELSE [branch |-> "", err |-> ""]

(* getSCMRefName *)
getSCMRefName(prSpec) ==
    IF IsMultiBranchPipeline(prSpec)
    THEN IF prSpec.SCM.isNil \/ prSpec.SCM.RefName = ""
         THEN [branch |-> "", err |-> "failed to obtain SCM reference name for multi-branch Pipeline"]
         ELSE [branch |-> prSpec.SCM.RefName, err |-> ""]
    ELSE [branch |-> "", err |-> ""]

getJenkinsBuildNumber_ZeroOnError(p) ==
    LET r == GetPipelineRunID(p) IN
    IF ~r.exist THEN -1
    ELSE IF AtoiOK(r.id) THEN Atoi(r.id) ELSE 0

(* getJenkinsBuildNumber *)
getJenkinsBuildNumber(p) ==
    LET r == GetPipelineRunID(p) IN
    IF ~r.exist THEN -1
    ELSE IF AtoiOK(r.id) THEN Atoi(r.id) ELSE -1

DeleteHistoryError_Swallow(answer) == ""

DeleteHistoryError_NoNotFound(answer) ==
    IF answer = "ok" THEN "" ELSE "failed to delete Jenkins job"

(* deleteJenkinsJobHistory: the error made of DeleteHistory's answer *)
DeleteHistoryError(answer) ==
    CASE answer = "ok" -> ""
      [] answer = "not found resources" -> ""
      [] OTHER -> "failed to delete Jenkins job"

(* json.Marshal of the fetched run and of its nodes *)
MarshalBuild(b) == "{id:" \o b.ID \o ",result:" \o b.Result \o "}"
MarshalNodes(n) == "[" \o n \o "]"

(* pipelineBuildApplier.apply *)
PhaseOf(res) ==
    CASE res = "RUNNING" -> "Running"
      [] res = "SUCCESS" -> "Succeeded"
      [] res = "FAILURE" -> "Failed"
      [] OTHER -> "Unknown"
apply(status, b, t) ==
    [status EXCEPT !.phase = PhaseOf(b.Result),
                   !.conds = (status.conds \ {c \in status.conds : c.type = "Ready"})
                             \cup {[type |-> "Ready", status |-> IF b.Result = "RUNNING" THEN "Unknown" ELSE "True", reason |-> b.Result]},
                   !.updateTime = t]

-----------------------------------------------------------------------------
(* Decisions of Reconcile *)

Route_BuildableFirst(p) ==
    IF ~Buildable(p) THEN "skip"
    ELSE IF p.deleting THEN "delete"
    ELSE IF NoRef(p.spec) THEN "orphan"
    ELSE "pipeline"

(* lines 75-97: which branch a pass takes on the record it read *)
Route(p) ==
    IF p.deleting THEN "delete"
    ELSE IF ~Buildable(p) THEN "skip"
    ELSE IF NoRef(p.spec) THEN "orphan"
    ELSE "pipeline"

StartedBranch_ByStartTime(p) == p.status.startTime # 0

(* line 121: poll or trigger *)
StartedBranch(p) == HasStarted(p)

ProceedToStatus_IgnoreError(metaErr) == TRUE

(* lines 153-156, 190-193, 354-356: the status write follows only a metadata
   step that returned no error *)
ProceedToStatus(metaErr) == metaErr = ""

(* lines 110-116: labels derived from the pipeline and the SCM reference *)
DerivedLabels(p) ==
    LET l1 == Put(p.labels, PipelineNameLabelKey, PipelineName)
        r == getSCMRefName(p.spec)
    IN IF r.err = "" /\ r.branch # "" THEN Put(l1, SCMRefNameLabelKey, r.branch) ELSE l1

(* lines 195-196 *)
StartedStatus(status, t) == [status EXCEPT !.startTime = t, !.updateTime = t]

(* lines 352-354: the copy labelled as an orphan, handed to the metadata write *)
OrphanMeta(p) == [labels |-> LabelAsAnOrphan(p.labels), annots |-> p.annots]

(* lines 357-367: the skip condition and phase Unknown are set on the copy
   prToUpdate, and updateStatus is handed &pr.Status *)
OrphanStatus(p) == p.status

(* requeue hints *)
RequeueOnWriteError(b) == IF b = "poll" THEN RequeueShort ELSE 0
RequeueOnSuccess_UntilTerminal(b) == IF b = "trigger" THEN RequeueShort ELSE 0

RequeueOnSuccess(b) ==
    CASE b = "poll" -> RequeuePoll
      [] b = "trigger" -> RequeueShort
      [] OTHER -> 0

-----------------------------------------------------------------------------
(* Builders: pkg/kapis/devops/v1alpha3/pipelinerun/util.go *)

NilSCM == [isNil |-> TRUE, RefName |-> ""]

CreateScm_NoBranchCheck(ps, b) ==
    IF ps.Type = MultiBranchPipelineType
    THEN [scm |-> [isNil |-> FALSE, RefName |-> b], err |-> ""]
    ELSE [scm |-> NilSCM, err |-> ""]

(* CreateScm *)
CreateScm(ps, b) ==
    IF ps.Type = MultiBranchPipelineType
    THEN IF b = ""
         THEN [scm |-> NilSCM, err |-> "missing branch name for running a multi-branch Pipeline"]
         ELSE [scm |-> [isNil |-> FALSE, RefName |-> b], err |-> ""]
    ELSE [scm |-> NilSCM, err |-> ""]

(* CreatePipelineRun with a nil payload: no labels, an empty annotation map *)
CreatePipelineRun(p, scm) ==
    [labels |-> EmptyMap,
     annots |-> EmptyMap,
     spec |-> [PipelineRef |-> [isNil |-> FALSE, Name |-> PipelineName],
               Type |-> p.Type, SCM |-> scm]]

(* fmt.Sprint(run.Branch.(map[string]interface{})["url"]) *)
SprintUrl(b) == IF b.hasUrl THEN b.url ELSE "<nil>"

createBarePipelineRun_NoID(p, run) ==
    LET b == IF run.Branch.isNil THEN "" ELSE SprintUrl(run.Branch)
        c == CreateScm(p, b)
    IN IF c.err # ""
       THEN [pr |-> CreatePipelineRun(p, NilSCM), err |-> c.err]
       ELSE [pr |-> CreatePipelineRun(p, c.scm), err |-> ""]

(* createBarePipelineRun *)
createBarePipelineRun(p, run) ==
    LET b == IF run.Branch.isNil THEN "" ELSE SprintUrl(run.Branch)
        c == CreateScm(p, b)
    IN IF c.err # ""
       THEN [pr |-> CreatePipelineRun(p, NilSCM), err |-> c.err]
       ELSE [pr |-> [CreatePipelineRun(p, c.scm) EXCEPT
                        !.annots = Put(@, JenkinsPipelineRunIDKey, run.ID)],
             err |-> ""]


(* runs of the engine: their identifiers and their branch payloads *)
RemoteIDs == {ToString(n) : n \in 1..MaxRemote}
Branches == {[isNil |-> TRUE, hasUrl |-> FALSE, url |-> ""],
             [isNil |-> FALSE, hasUrl |-> FALSE, url |-> ""],
             [isNil |-> FALSE, hasUrl |-> TRUE, url |-> "main"]}

-----------------------------------------------------------------------------
(* Initial states *)

BlankStatus == [phase |-> "", startTime |-> 0, updateTime |-> 0, conds |-> {}]
NoBuild == [ID |-> "", Result |-> ""]
NoWant == [labels |-> EmptyMap, annots |-> EmptyMap]
NoResult == [done |-> FALSE, err |-> "", requeue |-> 0]

PipelineRefs == {[isNil |-> TRUE, Name |-> ""], [isNil |-> FALSE, Name |-> ""],
                 [isNil |-> FALSE, Name |-> PipelineName]}
SCMs == {[isNil |-> TRUE, RefName |-> ""], [isNil |-> FALSE, RefName |-> ""],
         [isNil |-> FALSE, RefName |-> "main"]}
InitialIDs == {"", "7", "x", "-1"}

(* a run of a multi-branch pipeline may lack its SCM reference; a run of any
   other pipeline has none (CreateScm) *)
RunSpecs ==
    [PipelineRef : PipelineRefs, Type : {MultiBranchPipelineType}, SCM : SCMs]
    \cup [PipelineRef : PipelineRefs, Type : {NoScmPipelineType}, SCM : {[isNil |-> TRUE, RefName |-> ""]}]

InitialRecords ==
    { [exists |-> TRUE, deleting |-> FALSE, finalizer |-> f, buildable |-> b,
       labels |-> EmptyMap,
       annots |-> IF id = "" THEN EmptyMap ELSE Put(EmptyMap, JenkinsPipelineRunIDKey, id),
       status |-> BlankStatus, spec |-> s, origin |-> "api"] :
      f \in BOOLEAN, b \in BOOLEAN, id \in InitialIDs, s \in RunSpecs }

(* records another client created with labels and annotations of its own
   choice and without the finalizer: one that carries the orphan label
   already, and one that carries already what a polling pass would store
   while the run is running *)
PrelabelledRecords ==
    { [exists |-> TRUE, deleting |-> FALSE, finalizer |-> FALSE, buildable |-> TRUE,
       labels |-> LabelAsAnOrphan(EmptyMap), annots |-> EmptyMap,
       status |-> BlankStatus,
       spec |-> [PipelineRef |-> [isNil |-> TRUE, Name |-> ""],
                 Type |-> NoScmPipelineType, SCM |-> NilSCM],
       origin |-> "api"],
      [exists |-> TRUE, deleting |-> FALSE, finalizer |-> FALSE, buildable |-> TRUE,
       labels |-> Put(EmptyMap, PipelineNameLabelKey, PipelineName),
       annots |-> Put(Put(Put(EmptyMap, JenkinsPipelineRunIDKey, RunIDOf(1)),
                          JenkinsPipelineRunStatusKey,
                          MarshalBuild([ID |-> RunIDOf(1), Result |-> "RUNNING"])),
                      JenkinsPipelineRunStagesStatusKey, MarshalNodes("RUNNING")),
       status |-> BlankStatus,
       spec |-> [PipelineRef |-> [isNil |-> FALSE, Name |-> PipelineName],
                 Type |-> NoScmPipelineType, SCM |-> NilSCM],
       origin |-> "api"] }

(* the records the synchronizer creates (createBarePipelineRun, then Create),
   as the run reconciler first observes them; origin records who created the
   record and is read by no action *)
SyncCreatedRecords ==
    { [exists |-> TRUE, deleting |-> FALSE, finalizer |-> FALSE, buildable |-> b,
       labels |-> c.pr.labels, annots |-> c.pr.annots,
       status |-> BlankStatus, spec |-> c.pr.spec, origin |-> "sync"] :
      b \in BOOLEAN,
      c \in { x \in { createBarePipelineRun([Type |-> t], run) :
                        t \in {NoScmPipelineType, MultiBranchPipelineType},
                        run \in [ID : RemoteIDs, Branch : Branches] } : x.err = "" } }

RunInit ==
    /\ store \in InitialRecords \cup SyncCreatedRecords \cup PrelabelledRecords
    /\ pipeline \in {[exists |-> e, Type |-> store.spec.Type, marker |-> FALSE] : e \in BOOLEAN}
    /\ remote = "RUNNING"
    /\ issued = 0
    /\ now = 1
    /\ pc = "idle"
    /\ pr = store
    /\ prFresh = FALSE
    /\ want = NoWant
    /\ updFresh = FALSE
    /\ desired = BlankStatus
    /\ attempts = 0
    /\ branch = "none"
    /\ build = NoBuild
    /\ calls = {}
    /\ writes = <<>>
    /\ result = NoResult

-----------------------------------------------------------------------------
(* Run reconciler: Reconciler.Reconcile *)

Finish(err, requeue) ==
    /\ pc' = "idle"
    /\ result' = [done |-> TRUE, err |-> err, requeue |-> requeue]

(* every key the pass put into want is in the store with want's value *)
Carries(obj, w) ==
    /\ \A k \in (DOMAIN w.labels) \ {ForeignKey} : Has(obj.labels, k) /\ obj.labels[k] = w.labels[k]
    /\ \A k \in (DOMAIN w.annots) \ {ForeignKey} : Has(obj.annots, k) /\ obj.annots[k] = w.annots[k]

(* lines 59-97: read the record and choose the branch *)
Begin ==
    /\ pc = "idle"
    /\ calls' = {}
    /\ writes' = <<>>
    /\ build' = NoBuild
    /\ desired' = BlankStatus
    /\ attempts' = 0
    /\ updFresh' = FALSE
    /\ \/ /\ Finish("unable to fetch PipelineRun", 0)
          /\ branch' = "none"
          /\ want' = NoWant
          /\ UNCHANGED <<pr, prFresh>>
       \/ /\ ~store.exists
          /\ Finish(IgnoreNotFound("not found"), 0)
          /\ branch' = "none"
          /\ want' = NoWant
          /\ UNCHANGED <<pr, prFresh>>
       \/ /\ store.exists
          /\ pr' = store
          /\ prFresh' = TRUE
          /\ want' = IF Route(store) = "orphan" THEN OrphanMeta(store) ELSE NoWant
          /\ LET r == Route(store) IN
             CASE r = "delete" ->
                    /\ branch' = "delete"
                    /\ IF getJenkinsBuildNumber(store) < 0
                       THEN pc' = "del_update" /\ result' = NoResult
                       ELSE IF store.spec.PipelineRef.isNil
                            THEN Finish("panic: nil pointer dereference", 0)
                            ELSE pc' = "del_call" /\ result' = NoResult
               [] r = "skip" ->
                    /\ branch' = "skip"
                    /\ Finish("", 0)
               [] r = "orphan" ->
                    /\ branch' = "orphan"
                    /\ pc' = "meta_get"
                    /\ result' = NoResult
               [] OTHER ->
                    /\ branch' = "pipeline"
                    /\ pc' = "get_pipeline"
                    /\ result' = NoResult
    /\ UNCHANGED <<store, pipeline, remote, issued, now>>
    /\ UNCHANGED syncVars

(* lines 99-119 and the branch resolution that precedes each engine call
   (getSCMRefName in triggerJenkinsJob, getPipelineRunResult) *)
GetPipeline ==
    /\ pc = "get_pipeline"
    /\ \/ /\ Finish("unable to get pipeline", 0)
          /\ UNCHANGED <<pr, branch>>
       \/ /\ ~pipeline.exists
          /\ Finish(IgnoreNotFound("not found"), 0)
          /\ UNCHANGED <<pr, branch>>
       \/ /\ pipeline.exists
          /\ pr' = [pr EXCEPT !.labels = DerivedLabels(pr)]
          /\ branch' = IF StartedBranch(pr) THEN "poll" ELSE "trigger"
          /\ LET r == getSCMRefName(pr.spec) IN
             IF r.err # ""
             THEN Finish(r.err, 0)
             ELSE /\ pc' = IF StartedBranch(pr) THEN "fetch_result" ELSE "trigger"
                  /\ UNCHANGED result
    /\ UNCHANGED <<store, pipeline, remote, issued, now, prFresh, want, updFresh,
                   desired, attempts, build, calls, writes>>
    /\ UNCHANGED syncVars

Call(op) == [op |-> op, pipelines |-> <<Namespace, PipelineName>>,
             branch |-> getSCMRefName(pr.spec).branch, answer |-> ""]
FailedCall(op) == [Call(op) EXCEPT !.answer = "error"]

ReturnOnEngineError_Never(err) == FALSE

(* lines 124-128, 131-135, 176-180: an error of the engine ends the pass *)
ReturnOnEngineError(err) == err # ""

(* lines 123-128: getPipelineRunResult -> GetBuild *)
FetchResult ==
    /\ pc = "fetch_result"
    /\ \/ /\ calls' = calls \cup {FailedCall("fetchResult")}
          /\ IF ReturnOnEngineError("unable get PipelineRun data")
             THEN Finish("unable get PipelineRun data", 0)
             ELSE pc' = "fetch_nodes" /\ UNCHANGED result
          /\ UNCHANGED build
       \/ /\ calls' = calls \cup {Call("fetchResult")}
          /\ build' = [ID |-> GetPipelineRunID(pr).id, Result |-> remote]
          /\ pc' = "fetch_nodes"
          /\ UNCHANGED result
    /\ UNCHANGED <<store, pipeline, remote, issued, now, pr, prFresh, want, updFresh,
                   desired, attempts, branch, writes>>
    /\ UNCHANGED syncVars

(* lines 130-150: getPipelineNodes -> GetNodes, then both snapshots go into
   the annotations of the local copy *)
FetchNodes ==
    /\ pc = "fetch_nodes"
    /\ \/ /\ calls' = calls \cup {FailedCall("fetchStages")}
          /\ IF ReturnOnEngineError("unable to get PipelineRun nodes detail")
             THEN Finish("unable to get PipelineRun nodes detail", 0) /\ UNCHANGED want
             ELSE /\ pc' = "meta_get"
                  /\ want' = [labels |-> pr.labels, annots |-> pr.annots]
                  /\ UNCHANGED result
          /\ UNCHANGED pr
       \/ /\ calls' = calls \cup {Call("fetchStages")}
          /\ LET a == Put(Put(pr.annots, JenkinsPipelineRunStatusKey, MarshalBuild(build)),
                          JenkinsPipelineRunStagesStatusKey, MarshalNodes(remote))
             IN /\ pr' = [pr EXCEPT !.annots = a]
                /\ want' = [labels |-> pr.labels, annots |-> a]
          /\ pc' = "meta_get"
          /\ UNCHANGED result
    /\ UNCHANGED <<store, pipeline, remote, issued, now, prFresh, updFresh,
                   desired, attempts, branch, build, writes>>
    /\ UNCHANGED syncVars

(* lines 174-187: triggerJenkinsJob -> Build, then the identifier goes into
   the annotations of the local copy *)
Trigger ==
    /\ pc = "trigger"
    /\ issued < MaxTriggers
    /\ \/ /\ calls' = calls \cup {FailedCall("trigger")}
          /\ IF ReturnOnEngineError("unable to run pipeline")
             THEN Finish("unable to run pipeline", 0) /\ UNCHANGED want
             ELSE /\ pc' = "meta_get"
                  /\ want' = [labels |-> pr.labels, annots |-> pr.annots]
                  /\ UNCHANGED result
          /\ UNCHANGED <<pr, issued, build>>
       \/ /\ calls' = calls \cup {Call("trigger")}
          /\ issued' = issued + 1
          /\ build' = [ID |-> RunIDOf(issued + 1), Result |-> "RUNNING"]
          /\ LET a == Put(pr.annots, JenkinsPipelineRunIDKey, RunIDOf(issued + 1))
             IN /\ pr' = [pr EXCEPT !.annots = a]
                /\ want' = [labels |-> pr.labels, annots |-> a]
          /\ pc' = "meta_get"
          /\ UNCHANGED result
    /\ UNCHANGED <<store, pipeline, remote, now, prFresh, updFresh,
                   desired, attempts, branch, writes>>
    /\ UNCHANGED syncVars

(* what follows updateLabelsAndAnnotations in the three branches that call it *)
AfterMeta(err) ==
    IF ProceedToStatus(err)
    THEN /\ desired' = CASE branch = "poll" -> apply(pr.status, build, now)
                         [] branch = "trigger" -> StartedStatus(pr.status, now)
                         [] OTHER -> OrphanStatus(pr)
         /\ pc' = "status_get"
         /\ UNCHANGED result
    ELSE /\ Finish(err, RequeueOnWriteError(branch))
         /\ UNCHANGED desired

(* updateLabelsAndAnnotations, lines 316-323: fetch and compare *)
MetaGet ==
    /\ pc = "meta_get"
    /\ \/ /\ AfterMeta("unable to fetch PipelineRun")
          /\ UNCHANGED updFresh
       \/ /\ ~store.exists
          /\ AfterMeta("not found")
          /\ UNCHANGED updFresh
       \/ /\ store.exists
          /\ IF DeepEqual(want.labels, store.labels) /\ DeepEqual(want.annots, store.annots)
             THEN AfterMeta("") /\ UNCHANGED updFresh
             ELSE /\ pc' = "meta_update"
                  /\ updFresh' = TRUE
                  /\ UNCHANGED <<desired, result>>
    /\ UNCHANGED <<store, pipeline, remote, issued, now, pr, prFresh, want,
                   attempts, branch, build, calls, writes>>
    /\ UNCHANGED syncVars

(* updateLabelsAndAnnotations, lines 324-331: one Update, no retry *)
MetaUpdate ==
    /\ pc = "meta_update"
    /\ \/ /\ AfterMeta("update failed")
          /\ UNCHANGED <<store, writes, prFresh, updFresh>>
       \/ /\ ~updFresh
          /\ AfterMeta("conflict")
          /\ UNCHANGED <<store, writes, prFresh, updFresh>>
       \/ /\ updFresh
          /\ store.exists
          /\ store' = [store EXCEPT !.labels = want.labels, !.annots = want.annots,
                                    !.finalizer = TRUE]
          /\ writes' = Append(writes, [kind |-> "meta", meta |-> TRUE])
          /\ prFresh' = FALSE
          /\ updFresh' = FALSE
          /\ AfterMeta("")
    /\ UNCHANGED <<pipeline, remote, issued, now, pr, want,
                   attempts, branch, build, calls>>
    /\ UNCHANGED syncVars

(* what follows updateStatus *)
AfterStatus(err) ==
    IF err # ""
    THEN Finish(err, RequeueOnWriteError(branch))
    ELSE Finish("", RequeueOnSuccess(branch))

(* updateStatus, lines 336-343: fetch and compare, inside RetryOnConflict *)
StatusGet ==
    /\ pc = "status_get"
    /\ \/ /\ AfterStatus("unable to fetch PipelineRun")
          /\ UNCHANGED updFresh
       \/ /\ ~store.exists
          /\ AfterStatus("not found")
          /\ UNCHANGED updFresh
       \/ /\ store.exists
          /\ IF DeepEqual(desired, store.status)
             THEN AfterStatus("") /\ UNCHANGED updFresh
             ELSE /\ pc' = "status_update"
                  /\ updFresh' = TRUE
                  /\ UNCHANGED result
    /\ UNCHANGED <<store, pipeline, remote, issued, now, pr, prFresh, want,
                   desired, attempts, branch, build, calls, writes>>
    /\ UNCHANGED syncVars

(* updateStatus, lines 344-346: Status().Update; a conflict is retried until
   retry.DefaultRetry is used up *)
StatusUpdate ==
    /\ pc = "status_update"
    /\ \/ /\ AfterStatus("update failed")
          /\ UNCHANGED <<store, writes, prFresh, updFresh, attempts>>
       \/ /\ ~updFresh
          /\ attempts' = attempts + 1
          /\ IF attempts + 1 < RetrySteps
             THEN pc' = "status_get" /\ UNCHANGED result
             ELSE AfterStatus("conflict")
          /\ UNCHANGED <<store, writes, prFresh, updFresh>>
       \/ /\ updFresh
          /\ store.exists
          /\ store' = [store EXCEPT !.status = desired]
          /\ writes' = Append(writes, [kind |-> "status", meta |-> Carries(store, want)])
          /\ prFresh' = FALSE
          /\ updFresh' = FALSE
          /\ AfterStatus("")
          /\ UNCHANGED attempts
    /\ UNCHANGED <<pipeline, remote, issued, now, pr, want, desired,
                   branch, build, calls>>
    /\ UNCHANGED syncVars

(* deleteJenkinsJobHistory, lines 215-227: DeleteHistory on the engine *)
DeleteHistory ==
    /\ pc = "del_call"
    /\ \E answer \in {"ok", "not found resources", "error"} :
         /\ calls' = calls \cup {[op |-> "deleteHistory", pipelines |-> <<Namespace, pr.spec.PipelineRef.Name>>,
                                   branch |-> "", answer |-> answer]}
         /\ IF DeleteHistoryError(answer) # ""
            THEN Finish(DeleteHistoryError(answer), 0)
            ELSE pc' = "del_update" /\ UNCHANGED result
    /\ UNCHANGED <<store, pipeline, remote, issued, now, pr, prFresh, want, updFresh,
                   desired, attempts, branch, build, writes>>
    /\ UNCHANGED syncVars

(* lines 80-85: strip the finalizer from the copy read at line 66 and Update it *)
DelUpdate ==
    /\ pc = "del_update"
    /\ \/ /\ Finish("update failed", 0)
          /\ UNCHANGED <<store, writes, prFresh>>
       \/ /\ ~prFresh
          /\ Finish("conflict", 0)
          /\ UNCHANGED <<store, writes, prFresh>>
       \/ /\ prFresh
          /\ store.exists
          /\ store' = [store EXCEPT !.labels = pr.labels, !.annots = pr.annots,
                                    !.finalizer = FALSE]
          /\ writes' = Append(writes, [kind |-> "finalize", meta |-> (pr.labels = store.labels /\ pr.annots = store.annots)])
          /\ prFresh' = FALSE
          /\ Finish("", 0)
    /\ UNCHANGED <<pipeline, remote, issued, now, pr, want, updFresh,
                   desired, attempts, branch, build, calls>>
    /\ UNCHANGED syncVars

-----------------------------------------------------------------------------
(* The environment of the run reconciler *)

(* another writer of the record commits a label and an annotation of its own,
   or takes them away again *)
ForeignWrite ==
    /\ store.exists
    /\ store' = IF Has(store.labels, ForeignKey)
                THEN [store EXCEPT !.labels = Del(store.labels, ForeignKey),
                                   !.annots = Del(store.annots, ForeignKey)]
                ELSE [store EXCEPT !.labels = Put(store.labels, ForeignKey, "x"),
                                   !.annots = Put(store.annots, ForeignKey, "x")]
    /\ prFresh' = FALSE
    /\ updFresh' = FALSE
    /\ UNCHANGED <<pipeline, remote, issued, now, pc, pr, want, desired, attempts,
                   branch, build, calls, writes, result>>
    /\ UNCHANGED syncVars

(* a user deletes the record: the store sets the deletion timestamp *)
ForeignDelete ==
    /\ store.exists
    /\ ~store.deleting
    /\ store' = [store EXCEPT !.deleting = TRUE]
    /\ prFresh' = FALSE
    /\ updFresh' = FALSE
    /\ UNCHANGED <<pipeline, remote, issued, now, pc, pr, want, desired, attempts,
                   branch, build, calls, writes, result>>
    /\ UNCHANGED syncVars

(* the store removes a deleted record that no finalizer holds *)
StoreRemove ==
    /\ store.exists
    /\ store.deleting
    /\ ~store.finalizer
    /\ store' = [store EXCEPT !.exists = FALSE]
    /\ prFresh' = FALSE
    /\ updFresh' = FALSE
    /\ UNCHANGED <<pipeline, remote, issued, now, pc, pr, want, desired, attempts,
                   branch, build, calls, writes, result>>
    /\ UNCHANGED syncVars

(* the run finishes on the engine *)
RemoteAdvance ==
    /\ remote = "RUNNING"
    /\ remote' \in {"SUCCESS", "FAILURE"}
    /\ UNCHANGED <<store, pipeline, issued, now, pc, pr, prFresh, want, updFresh,
                   desired, attempts, branch, build, calls, writes, result>>
    /\ UNCHANGED syncVars

Tick ==
    /\ now < MaxClock
    /\ now' = now + 1
    /\ UNCHANGED <<store, pipeline, remote, issued, pc, pr, prFresh, want, updFresh,
                   desired, attempts, branch, build, calls, writes, result>>
    /\ UNCHANGED syncVars

SyncIdle == [prContainer |-> {}, list |-> <<>>, idx |-> 0, created |-> EmptyBag, failed |-> FALSE,
             attempts |-> 0, fresh |-> FALSE, done |-> FALSE, err |-> "", removed |-> FALSE,
             late |-> FALSE, marked |-> FALSE, atStart |-> EmptyBag, passes |-> 0]

(* no builder call under way *)
BuilderIdle == [step |-> "none", Type |-> NoScmPipelineType, branch |-> "",
                prSpec |-> [PipelineRef |-> [isNil |-> TRUE, Name |-> ""],
                            Type |-> NoScmPipelineType, SCM |-> NilSCM],
                scm |-> NilSCM, scmErr |-> "", ref |-> "", refErr |-> ""]

SyncFrozen ==
    /\ spc = "idle"
    /\ runs = EmptyBag
    /\ jenkinsRuns = <<>>
    /\ sync = SyncIdle
    /\ builder = BuilderIdle

Init == RunInit /\ SyncFrozen

Next ==
    \/ Begin
    \/ GetPipeline
    \/ FetchResult
    \/ FetchNodes
    \/ Trigger
    \/ MetaGet
    \/ MetaUpdate
    \/ StatusGet
    \/ StatusUpdate
    \/ DeleteHistory
    \/ DelUpdate
    \/ ForeignWrite
    \/ ForeignDelete
    \/ StoreRemove
    \/ RemoteAdvance
    \/ Tick

Spec == Init /\ [][Next]_vars

-----------------------------------------------------------------------------
(* Synchronizer: SyncReconciler.Reconcile *)

(* client.MatchingLabels{PipelineNameLabelKey: pipeline.Name} *)
MatchingLabels(r) ==
    Has(r.labels, PipelineNameLabelKey) /\ r.labels[PipelineNameLabelKey] = PipelineName

(* pr.Annotations[JenkinsPipelineRunIDKey]: "" when the key is absent *)
RunIDAnnotation(r) ==
    IF Has(r.annots, JenkinsPipelineRunIDKey) THEN r.annots[JenkinsPipelineRunIDKey] ELSE ""

(* lines 433-437: prContainer, keyed by run identifier *)
PrContainer(items) == {RunIDAnnotation(r) : r \in items}

SyncFinish(err) ==
    /\ spc' = "idle"
    /\ sync' = [sync EXCEPT !.done = TRUE, !.err = err, !.marked = pipeline.marker]

(* lines 418-424: read the pipeline *)
SyncBegin ==
    /\ spc = "idle"
    /\ sync.passes < MaxPasses
    /\ LET fresh == [SyncIdle EXCEPT !.passes = sync.passes + 1, !.atStart = runs] IN
       \/ /\ spc' = "idle"
          /\ sync' = [fresh EXCEPT !.done = TRUE, !.err = "unable to fetch Pipeline",
                                   !.marked = pipeline.marker]
       \/ /\ ~pipeline.exists
          /\ spc' = "idle"
          /\ sync' = [fresh EXCEPT !.done = TRUE, !.marked = pipeline.marker]
       \/ /\ pipeline.exists
          /\ spc' = "list"
          /\ sync' = fresh
    /\ UNCHANGED <<runs, jenkinsRuns, pipeline>>
    /\ UNCHANGED runVars

(* lines 426-437: list the runs labelled with the pipeline's name *)
SyncList ==
    /\ spc = "list"
    /\ \/ SyncFinish("unable to list PipelineRuns")
       \/ /\ spc' = "remote"
          /\ sync' = [sync EXCEPT !.prContainer = PrContainer({r \in BagToSet(runs) : MatchingLabels(r)})]
    /\ UNCHANGED <<runs, jenkinsRuns, pipeline>>
    /\ UNCHANGED runVars

(* lines 444-449: list the runs of the engine *)
SyncListRemote ==
    /\ spc = "remote"
    /\ \/ SyncFinish("unable to get PipelineRuns from the engine")
       \/ /\ spc' = IF Len(jenkinsRuns) = 0 THEN "marker_get" ELSE "create"
          /\ sync' = [sync EXCEPT !.list = jenkinsRuns, !.idx = 1]
    /\ UNCHANGED <<runs, jenkinsRuns, pipeline>>
    /\ UNCHANGED runVars

(* lines 450-459: one iteration of the loop over the engine's runs;
   createPipelineRun = createBarePipelineRun, then Create *)
SyncCreate ==
    /\ spc = "create"
    /\ LET run == sync.list[sync.idx]
           bare == createBarePipelineRun(pipeline, run)
           next == IF sync.idx = Len(sync.list) THEN "marker_get" ELSE "create"
       IN /\ spc' = next
          /\ IF run.ID \in sync.prContainer
             THEN /\ sync' = [sync EXCEPT !.idx = @ + 1]
                  /\ UNCHANGED runs
             ELSE IF bare.err # ""
             THEN /\ sync' = [sync EXCEPT !.idx = @ + 1, !.failed = TRUE]
                  /\ UNCHANGED runs
             ELSE \/ /\ sync' = [sync EXCEPT !.idx = @ + 1, !.failed = TRUE]
                     /\ UNCHANGED runs
                  \/ /\ sync' = [sync EXCEPT !.idx = @ + 1, !.created = @ (+) SetToBag({bare.pr})]
                     /\ runs' = runs (+) SetToBag({bare.pr})
    /\ UNCHANGED <<jenkinsRuns, pipeline>>
    /\ UNCHANGED runVars

(* synchronizedSuccessfully, lines 475-481: fetch the pipeline, look for the marker *)
SyncMarkerGet ==
    /\ spc = "marker_get"
    /\ \/ SyncFinish("unable to fetch Pipeline")
       \/ /\ ~pipeline.marker
          /\ SyncFinish("")
       \/ /\ pipeline.marker
          /\ spc' = "marker_update"
          /\ sync' = [sync EXCEPT !.fresh = TRUE]
    /\ UNCHANGED <<runs, jenkinsRuns, pipeline>>
    /\ UNCHANGED runVars

(* synchronizedSuccessfully, lines 482-487: delete the annotation and Update,
   inside RetryOnConflict *)
SyncMarkerUpdate ==
    /\ spc = "marker_update"
    /\ \/ /\ SyncFinish("update failed")
          /\ UNCHANGED pipeline
       \/ /\ ~sync.fresh
          /\ IF sync.attempts + 1 < RetrySteps
             THEN /\ spc' = "marker_get"
                  /\ sync' = [sync EXCEPT !.attempts = @ + 1]
             ELSE /\ spc' = "idle"
                  /\ sync' = [sync EXCEPT !.attempts = @ + 1, !.done = TRUE, !.err = "conflict",
                                        !.marked = pipeline.marker]
          /\ UNCHANGED pipeline
       \/ /\ sync.fresh
          /\ pipeline' = [pipeline EXCEPT !.marker = FALSE]
          /\ spc' = "idle"
          /\ sync' = [sync EXCEPT !.done = TRUE, !.err = "", !.removed = TRUE, !.fresh = FALSE,
                                  !.marked = FALSE]
    /\ UNCHANGED <<runs, jenkinsRuns>>
    /\ UNCHANGED runVars

(* another writer asks for a synchronization: it sets the marker, or sets it
   anew over the one that is there; late: the marker on the pipeline was set
   after the pass in flight had listed the engine's runs *)
MarkerRequest ==
    /\ pipeline.exists
    /\ pipeline' = [pipeline EXCEPT !.marker = TRUE]
    /\ sync' = [sync EXCEPT !.fresh = FALSE,
                            !.late = IF spc \in {"create", "marker_get", "marker_update"}
                                     THEN TRUE ELSE @]
    /\ UNCHANGED <<spc, runs, jenkinsRuns>>
    /\ UNCHANGED runVars

(* another writer updates the pipeline between the fetch and the Update *)
PipelineTouch ==
    /\ spc = "marker_update"
    /\ sync.fresh
    /\ sync' = [sync EXCEPT !.fresh = FALSE]
    /\ UNCHANGED <<spc, runs, jenkinsRuns, pipeline>>
    /\ UNCHANGED runVars

(* the run reconciler catches up: its polling passes on the records the
   synchronizer created commit the derived labels (lines 110-116 and 153) *)
Labelled(r) == [r EXCEPT !.labels = Put(@, PipelineNameLabelKey, PipelineName)]
Unlabelled(r) == [r EXCEPT !.labels = Del(@, PipelineNameLabelKey)]
RunReconcilerLabels ==
    /\ \E r \in BagToSet(runs) : ~MatchingLabels(r)
    /\ runs' = [r \in {Labelled(x) : x \in BagToSet(runs)} |->
                  CopiesIn(r, runs) + CopiesIn(Unlabelled(r), runs)]
    /\ UNCHANGED <<spc, jenkinsRuns, pipeline, sync>>
    /\ UNCHANGED runVars

(* Initial states of the synchronizer *)
(* the engine's runs: some of the runs 1..n, in the order of their numbers *)
RECURSIVE RemoteLists(_)
RemoteLists(n) ==
    IF n = 0 THEN {<<>>}
    ELSE LET shorter == RemoteLists(n - 1) IN
         shorter \cup {Append(l, [ID |-> ToString(n), Branch |-> b]) : l \in shorter, b \in Branches}

(* a local record of a run of the engine, as it is once the run reconciler
   has polled it: labelled with the pipeline's name *)
LocalRecord(id) ==
    [labels |-> Put(EmptyMap, PipelineNameLabelKey, PipelineName),
     annots |-> Put(EmptyMap, JenkinsPipelineRunIDKey, id),
     spec |-> [PipelineRef |-> [isNil |-> FALSE, Name |-> PipelineName],
               Type |-> NoScmPipelineType, SCM |-> NilSCM]]

(* local records for some of the engine's runs *)
LocalBags == {SetToBag({LocalRecord(id) : id \in S}) : S \in SUBSET RemoteIDs}

RunFrozen ==
    /\ store = [exists |-> FALSE, deleting |-> FALSE, finalizer |-> FALSE, buildable |-> FALSE,
                labels |-> EmptyMap, annots |-> EmptyMap, status |-> BlankStatus,
                spec |-> [PipelineRef |-> [isNil |-> TRUE, Name |-> ""],
                          Type |-> NoScmPipelineType, SCM |-> NilSCM],
                origin |-> "api"]
    /\ remote = "RUNNING"
    /\ issued = 0
    /\ now = 1
    /\ pc = "idle"
    /\ pr = store
    /\ prFresh = FALSE
    /\ want = NoWant
    /\ updFresh = FALSE
    /\ desired = BlankStatus
    /\ attempts = 0
    /\ branch = "none"
    /\ build = NoBuild
    /\ calls = {}
    /\ writes = <<>>
    /\ result = NoResult

SyncInit ==
    /\ RunFrozen
    /\ pipeline \in [exists : BOOLEAN, Type : {NoScmPipelineType, MultiBranchPipelineType},
                     marker : BOOLEAN]
    /\ jenkinsRuns \in RemoteLists(MaxRemote)
    /\ pipeline.Type # MultiBranchPipelineType =>
           \A i \in 1..Len(jenkinsRuns) : jenkinsRuns[i].Branch.isNil
    /\ runs \in LocalBags
    /\ spc = "idle"
    /\ sync = SyncIdle
    /\ builder = BuilderIdle

SyncNext ==
    \/ SyncBegin
    \/ SyncList
    \/ SyncListRemote
    \/ SyncCreate
    \/ SyncMarkerGet
    \/ SyncMarkerUpdate
    \/ MarkerRequest
    \/ PipelineTouch
    \/ RunReconcilerLabels

SyncSpec == SyncInit /\ [][SyncNext]_vars

(* consecutive synchronizer passes with no pass of the run reconciler in
   between: the records the synchronizer created stay as it created them *)
SyncAloneNext ==
    \/ SyncBegin
    \/ SyncList
    \/ SyncListRemote
    \/ SyncCreate
    \/ SyncMarkerGet
    \/ SyncMarkerUpdate
    \/ MarkerRequest
    \/ PipelineTouch

SyncAloneSpec == SyncInit /\ [][SyncAloneNext]_vars

-----------------------------------------------------------------------------
(* Polling under fair scheduling: the record is started, buildable, not
   deleted, and its pipeline exists; Reconcile is invoked again and again,
   and every read, engine call and write that can succeed infinitely often
   does succeed eventually *)
LiveRecords ==
    { r \in InitialRecords \cup SyncCreatedRecords :
        /\ Buildable(r)
        /\ HasStarted(r)
        /\ AtoiOK(GetPipelineRunID(r).id)
        /\ ~NoRef(r.spec)
        /\ ~IsMultiBranchPipeline(r.spec)
        /\ r.finalizer }

LiveInit ==
    /\ RunInit
    /\ store \in LiveRecords
    /\ pipeline.exists
    /\ SyncFrozen

LiveNext ==
    \/ Begin
    \/ GetPipeline
    \/ FetchResult
    \/ FetchNodes
    \/ MetaGet
    \/ MetaUpdate
    \/ StatusGet
    \/ StatusUpdate
    \/ ForeignWrite
    \/ RemoteAdvance

(* a pass in flight takes its next step *)
PassStep ==
    \/ Begin
    \/ GetPipeline
    \/ FetchResult
    \/ FetchNodes
    \/ MetaGet
    \/ MetaUpdate
    \/ StatusGet
    \/ StatusUpdate

LiveFairness ==
    /\ WF_vars(PassStep)
    /\ SF_vars(Begin /\ pc' = "get_pipeline")
    /\ SF_vars(GetPipeline /\ pc' = "fetch_result")
    /\ SF_vars(FetchResult /\ pc' = "fetch_nodes")
    /\ SF_vars(FetchNodes /\ pc' = "meta_get")
    /\ SF_vars(MetaGet /\ pc' \in {"meta_update", "status_get"})
    /\ SF_vars(MetaUpdate /\ pc' = "status_get")
    /\ SF_vars(StatusGet /\ (pc' = "status_update" \/ result'.err = ""))
    /\ SF_vars(StatusUpdate /\ writes' # writes)

LiveSpec == LiveInit /\ [][LiveNext]_vars /\ LiveFairness

-----------------------------------------------------------------------------
(* The builders on their own: CreateScm on every pipeline type and branch,
   CreatePipelineRun on what CreateScm returned, getSCMRefName on the spec
   built and on every run spec *)
BranchNames == {"", "main", "<nil>"}

BuildInit ==
    /\ RunFrozen
    /\ pipeline = [exists |-> TRUE, Type |-> NoScmPipelineType, marker |-> FALSE]
    /\ spc = "idle"
    /\ runs = EmptyBag
    /\ jenkinsRuns = <<>>
    /\ sync = SyncIdle
    /\ builder \in { [BuilderIdle EXCEPT !.step = "input", !.Type = t, !.branch = b, !.prSpec = s] :
                       t \in {NoScmPipelineType, MultiBranchPipelineType},
                       b \in BranchNames,
                       s \in [PipelineRef : PipelineRefs,
                              Type : {NoScmPipelineType, MultiBranchPipelineType}, SCM : SCMs] }

(* scm, err := CreateScm(&pipeline.Spec, branch) *)
ApplyCreateScm ==
    /\ builder.step = "input"
    /\ LET c == CreateScm([Type |-> builder.Type], builder.branch) IN
       builder' = [builder EXCEPT !.step = "scm", !.scm = c.scm, !.scmErr = c.err]
    /\ UNCHANGED <<store, pipeline, remote, issued, now, pc, pr, prFresh, want, updFresh,
                   desired, attempts, branch, build, calls, writes, result,
                   spc, runs, jenkinsRuns, sync>>

(* CreatePipelineRun(pipeline, nil, scm), reached when CreateScm gave no error *)
ApplyCreatePipelineRun ==
    /\ builder.step = "scm"
    /\ builder.scmErr = ""
    /\ builder' = [builder EXCEPT !.step = "built",
                                  !.prSpec = CreatePipelineRun([Type |-> builder.Type], builder.scm).spec]
    /\ UNCHANGED <<store, pipeline, remote, issued, now, pc, pr, prFresh, want, updFresh,
                   desired, attempts, branch, build, calls, writes, result,
                   spc, runs, jenkinsRuns, sync>>

(* getSCMRefName(&pr.Spec), on the spec given or on the spec built *)
ApplyGetSCMRefName ==
    /\ builder.step \in {"input", "built"}
    /\ LET r == getSCMRefName(builder.prSpec) IN
       builder' = [builder EXCEPT !.step = IF builder.step = "input" THEN "resolved" ELSE "built_resolved",
                                  !.ref = r.branch, !.refErr = r.err]
    /\ UNCHANGED <<store, pipeline, remote, issued, now, pc, pr, prFresh, want, updFresh,
                   desired, attempts, branch, build, calls, writes, result,
                   spc, runs, jenkinsRuns, sync>>

BuildNext ==
    \/ ApplyCreateScm
    \/ ApplyCreatePipelineRun
    \/ ApplyGetSCMRefName

BuildSpec == BuildInit /\ [][BuildNext]_vars

-----------------------------------------------------------------------------
(* Properties of the run reconciler *)

PassEnded == pc = "idle" /\ result.done
StoredID == IF Has(store.annots, JenkinsPipelineRunIDKey)
            THEN store.annots[JenkinsPipelineRunIDKey] ELSE ""
MultiNoRef(prSpec) ==
    IsMultiBranchPipeline(prSpec) /\ (prSpec.SCM.isNil \/ prSpec.SCM.RefName = "")
OpsCalled == {c.op : c \in calls}
KindsWritten == {writes[i].kind : i \in 1..Len(writes)}

(* C1: over any sequence of serialized Reconcile passes on one record, the
   engine's trigger operation succeeds at most once. *)
C1_TriggerAtMostOnce == issued <= 1

(* C2: once the stored record carries an external run identifier, every later
   stored version of the record carries the same identifier. *)
C2_IdentifierImmutable ==
    [][Has(store.annots, JenkinsPipelineRunIDKey) =>
         /\ Has(store'.annots, JenkinsPipelineRunIDKey)
         /\ store'.annots[JenkinsPipelineRunIDKey] = store.annots[JenkinsPipelineRunIDKey]]_vars

(* C2 witness: the identifier a trigger pass stored is still the stored one
   after a later polling pass has written its metadata. *)
C2_Witness ==
    /\ issued >= 1
    /\ StoredID = RunIDOf(1)
    /\ branch = "poll"
    /\ PassEnded
    /\ "meta" \in KindsWritten

(* C3 as stated: for every record whose pipeline is multi-branch and whose
   reference name is absent or empty, in whatever state, a pass returns an
   error and calls the engine not at all. *)
C3_Original ==
    (branch # "none" /\ MultiNoRef(pr.spec)) =>
        /\ calls = {}
        /\ (PassEnded => result.err # "")

(* C3 amended: for every record that is not being deleted, is buildable, has a
   pipeline reference whose pipeline exists, is multi-branch and has no
   reference name, a pass returns an error and calls the engine not at all,
   whether the record is started or not. *)
C3_Amended ==
    (branch # "none" /\ MultiNoRef(pr.spec) /\ Route(pr) = "pipeline" /\ pipeline.exists) =>
        /\ calls = {}
        /\ (PassEnded => result.err # "")

(* C3 witness: a pass on such a record, started, has ended with the error. *)
C3_Witness ==
    /\ PassEnded
    /\ branch = "poll"
    /\ MultiNoRef(pr.spec)
    /\ pipeline.exists
    /\ result.err = getSCMRefName(pr.spec).err

NotFoundAnswered == \E c \in calls : c.op = "deleteHistory" /\ c.answer = "not found resources"

(* C4 as stated: a deletion pass whose deleteHistory call answers not-found
   ends with the finalizer removed from the stored record and no error. *)
C4_Original ==
    (PassEnded /\ branch = "delete" /\ NotFoundAnswered) =>
        /\ ~store.finalizer
        /\ result.err = ""

(* C4 amended: a deletion pass whose deleteHistory call answers not-found
   goes on to the finalizer-removing write and returns that write's result:
   no error and the finalizer removed from the stored record when the write
   succeeds, the write's error and no write committed when it fails. *)
C4_Amended ==
    (PassEnded /\ branch = "delete" /\ NotFoundAnswered) =>
        \/ /\ result.err = ""
           /\ ~store.finalizer
           /\ KindsWritten = {"finalize"}
        \/ /\ result.err \in {"update failed", "conflict"}
           /\ writes = <<>>

(* C4 witness: the record read had the finalizer, the call answered not-found,
   the pass ended without error and the stored record has no finalizer. *)
C4_Witness ==
    /\ PassEnded
    /\ branch = "delete"
    /\ NotFoundAnswered
    /\ pr.finalizer
    /\ ~store.finalizer
    /\ result.err = ""

(* C6: within one pass the metadata write precedes the status write, and a
   status write is committed only when the store holds the labels and
   annotations of that pass (its metadata step did not fail). *)
C6_MetaBeforeStatus ==
    \A i \in 1..Len(writes) :
        writes[i].kind = "status" =>
            /\ writes[i].meta
            /\ \A j \in 1..Len(writes) : writes[j].kind = "meta" => j < i

(* C6 witness: a polling pass has written metadata, then status. *)
C6_Witness ==
    /\ branch = "poll"
    /\ Len(writes) = 2
    /\ writes[1].kind = "meta"
    /\ writes[2].kind = "status"

(* C7: after a pass that successfully triggers a not-yet-started single-branch
   run, trigger was called with the pipeline's coordinates and an empty branch,
   the stored record carries the returned identifier, the stored status has
   phase Running with start and update timestamps, and the pass asks for a
   requeue after 1 time unit. *)
C7_TriggerPass ==
    (PassEnded /\ branch = "trigger" /\ result.err = "" /\ ~IsMultiBranchPipeline(pr.spec)) =>
        /\ [op |-> "trigger", pipelines |-> <<Namespace, PipelineName>>, branch |-> "", answer |-> ""] \in calls
        /\ StoredID = build.ID
        /\ store.status.phase = "Running"
        /\ store.status.startTime # 0
        /\ store.status.updateTime # 0
        /\ result.requeue = 1

(* C9: both mutator entry points retry a version conflict up to the bound: a
   conflict reaches the caller of either only when RetrySteps attempts are
   used up. *)
C9_ConflictOnlyWhenExhausted ==
    (PassEnded /\ branch \in {"poll", "trigger", "orphan"} /\ result.err = "conflict") =>
        attempts = RetrySteps

(* C10: a pass that read a record with a deletion timestamp runs the deletion
   branch only: no trigger, fetchResult or fetchStages call, no metadata or
   status write, and the one write it may commit leaves labels and annotations
   as they are stored. *)
C10_DeletionOnly ==
    (branch # "none" /\ pr.deleting) =>
        /\ branch = "delete"
        /\ OpsCalled \subseteq {"deleteHistory"}
        /\ \A i \in 1..Len(writes) : writes[i].kind = "finalize" /\ writes[i].meta

(* C10 witness: a deletion pass on a started, buildable record with a pipeline
   reference has called deleteHistory and removed the finalizer. *)
C10_Witness ==
    /\ PassEnded
    /\ branch = "delete"
    /\ pr.deleting
    /\ HasStarted(pr)
    /\ Buildable(pr)
    /\ ~NoRef(pr.spec)
    /\ OpsCalled = {"deleteHistory"}
    /\ KindsWritten = {"finalize"}

(* C11: a record the synchronizer created for a run of the engine is never
   the subject of a trigger call: no pass on it takes the trigger branch or
   invokes trigger, and every pass that gets as far as the started check
   takes the polling branch (a pass on a deleted record takes the deletion
   branch). *)
C11_CreatedNeverTriggered ==
    store.origin = "sync" =>
        /\ issued = 0
        /\ pc # "trigger"
        /\ "trigger" \notin OpsCalled
        /\ branch \in {"none", "delete", "skip", "pipeline", "poll"}
        /\ (branch = "pipeline" => (pc = "get_pipeline" \/ PassEnded))

(* C11 witness: the first pass on such a record polled the engine and stored
   what it fetched. *)
C11_Witness ==
    /\ store.origin = "sync"
    /\ PassEnded
    /\ branch = "poll"
    /\ OpsCalled = {"fetchResult", "fetchStages"}
    /\ KindsWritten = {"meta", "status"}
    /\ result.err = ""

(* what the stored record shows once it reflects the engine's result res *)
Translated(res) ==
    /\ Has(store.annots, JenkinsPipelineRunStatusKey)
    /\ store.annots[JenkinsPipelineRunStatusKey] = MarshalBuild([ID |-> StoredID, Result |-> res])
    /\ Has(store.annots, JenkinsPipelineRunStagesStatusKey)
    /\ store.annots[JenkinsPipelineRunStagesStatusKey] = MarshalNodes(res)
    /\ store.status.phase = apply(store.status, [ID |-> StoredID, Result |-> res], now).phase
    /\ store.status.conds = apply(store.status, [ID |-> StoredID, Result |-> res], now).conds

(* C12: for a started run whose result on the engine is terminal (and so
   changes no more), under repeated invocation and eventual success of
   fetches and writes, the stored snapshot annotations and status eventually
   equal the translation of the terminal result, and stay so. *)
C12_Converges == (remote # "RUNNING") ~> [](remote # "RUNNING" /\ Translated(remote))

(* C12 witness: the run is terminal on the engine and a polling pass has
   stored its translation. *)
C12_Witness ==
    /\ remote # "RUNNING"
    /\ PassEnded
    /\ branch = "poll"
    /\ result.err = ""
    /\ Translated(remote)

(* C13: every write of the run reconciler is applied to a version of the
   record fetched immediately before it, so that what another writer committed
   between the start of the pass and the write is preserved by the write (or
   the write fails with a conflict): a write a pass commits leaves the other
   writer's label and annotation as they are stored. *)
C13_ForeignChangePreserved ==
    [][writes' # writes =>
         /\ Has(store'.labels, ForeignKey) = Has(store.labels, ForeignKey)
         /\ Has(store'.annots, ForeignKey) = Has(store.annots, ForeignKey)]_vars

SkipCondition(c) == c.reason = "SKIPPED" /\ c.status = "Unknown"

(* C14: a pass on a buildable, not-deleted record without pipeline reference
   that returns no error leaves the stored status with phase Unknown and a
   skip condition (reason SKIPPED, status Unknown), calls the engine not at
   all and returns no requeue hint. *)
C14_OrphanPass ==
    (PassEnded /\ branch = "orphan" /\ result.err = "") =>
        /\ store.status.phase = "Unknown"
        /\ \E c \in store.status.conds : SkipCondition(c)
        /\ calls = {}
        /\ result.requeue = 0

(* a pass that ended at the read of the pipeline, the pipeline being absent *)
PipelineMissed == PassEnded /\ branch = "pipeline" /\ ~pipeline.exists

(* C15 as stated: a pass on a buildable, not-deleted record whose pipeline
   does not exist returns an error, calls the engine not at all, writes
   nothing and returns no requeue hint. *)
C15_Original ==
    PipelineMissed =>
        /\ result.err # ""
        /\ calls = {}
        /\ writes = <<>>
        /\ result.requeue = 0

(* C15 amended: such a pass returns no error (the not-found answer is dropped,
   only a failure of the read itself is returned), calls the engine not at
   all, writes nothing and returns no requeue hint. *)
C15_Amended ==
    PipelineMissed =>
        /\ result.err \in {"", "unable to get pipeline"}
        /\ calls = {}
        /\ writes = <<>>
        /\ result.requeue = 0

(* C15 witness: a pass on a buildable, not-deleted, not-started record with a
   pipeline reference ended without error, the pipeline being absent. *)
C15_Witness ==
    /\ PipelineMissed
    /\ Buildable(pr)
    /\ ~pr.deleting
    /\ ~HasStarted(pr)
    /\ result.err = ""

EngineErrorOf(op) ==
    CASE op = "trigger" -> "unable to run pipeline"
      [] op = "fetchResult" -> "unable get PipelineRun data"
      [] OTHER -> "unable to get PipelineRun nodes detail"

(* C16: when the engine's trigger call, or its fetchResult or fetchStages
   call, fails, the pass returns that error and commits no write: labels,
   annotations and status stay as stored, and after a failed trigger the
   stored record has no run identifier. *)
C16_EngineFailureNoWrite ==
    \A c \in calls :
        (c.op \in {"trigger", "fetchResult", "fetchStages"} /\ c.answer = "error") =>
            /\ PassEnded
            /\ result.err = EngineErrorOf(c.op)
            /\ result.requeue = 0
            /\ writes = <<>>
            /\ (c.op = "trigger" => ~Has(store.annots, JenkinsPipelineRunIDKey))

(* C16 witness: a polling pass whose fetchStages call failed, after its
   fetchResult call had succeeded, ended with the error. *)
C16_Witness ==
    /\ PassEnded
    /\ FailedCall("fetchStages") \in calls
    /\ Call("fetchResult") \in calls
    /\ result.err = EngineErrorOf("fetchStages")

(* errors of the two mutator entry points *)
WriteErrors == {"unable to fetch PipelineRun", "not found", "update failed", "conflict"}

(* C17: every polling pass that ends without error returns a requeue-after
   hint of 3 time units, whether the run is terminal on the engine or not (so
   the reconciler never stops polling a started record); a polling pass whose
   metadata or status write fails returns the error with a hint of 1. *)
C17_PollRequeue ==
    (PassEnded /\ branch = "poll") =>
        /\ (result.err = "" => result.requeue = 3)
        /\ (result.err \in WriteErrors => result.requeue = 1)

(* C17 witness: a polling pass that fetched a terminal result ended without
   error and asks to be run again after 3. *)
C17_Witness ==
    /\ PassEnded
    /\ branch = "poll"
    /\ build.Result \in {"SUCCESS", "FAILURE"}
    /\ store.status.phase = PhaseOf(build.Result)
    /\ result.err = ""
    /\ result.requeue = 3

DeleteHistoryFailed == \E c \in calls : c.op = "deleteHistory" /\ c.answer = "error"

(* C18: a deletion pass whose deleteHistory call fails with an error other
   than not-found commits no write (the finalizer stays), returns the error
   and no requeue hint; and the finalizer leaves the stored record only in a
   deletion pass whose deleteHistory step did not fail. *)
C18_FailedDeleteKeepsFinalizer ==
    [][/\ DeleteHistoryFailed' =>
            /\ PassEnded'
            /\ branch' = "delete"
            /\ result'.err = "failed to delete Jenkins job"
            /\ result'.requeue = 0
            /\ writes' = <<>>
            /\ store'.finalizer = pr'.finalizer
       /\ (store.finalizer /\ ~store'.finalizer) =>
            /\ branch = "delete"
            /\ ~DeleteHistoryFailed
            /\ KindsWritten' = {"finalize"}]_vars

(* C18 witness: a deletion pass on a record holding the finalizer ended with
   the error of its failed deleteHistory call, the finalizer still stored. *)
C18_Witness ==
    /\ PassEnded
    /\ branch = "delete"
    /\ DeleteHistoryFailed
    /\ pr.finalizer
    /\ store.finalizer
    /\ result.err = "failed to delete Jenkins job"

(* the step commits a write of the given kind *)
Commits(kind) ==
    /\ Len(writes') = Len(writes) + 1
    /\ writes'[Len(writes')].kind = kind

(* C19 as stated: the metadata entry point writes only when the desired
   labels or annotations differ from the fetched ones, the status entry point
   only when the desired status differs from the fetched one; and so a
   polling pass that finds the record already showing the result it fetched
   (phase and conditions) commits no status write: it leaves the record's
   version as it is. *)
C19_Original ==
    [][/\ Commits("meta") => (want.labels # store.labels \/ want.annots # store.annots)
       /\ Commits("status") => desired # store.status
       /\ (branch = "poll" /\ Commits("status")) =>
              ~(desired.phase = store.status.phase /\ desired.conds = store.status.conds)]_vars

(* C19 amended: the two entry points write only when what is desired differs
   from what was fetched; a polling pass that finds the record already
   showing the result it fetched commits a status write only to bring the
   update timestamp to the time of the pass. *)
C19_Amended ==
    [][/\ Commits("meta") => (want.labels # store.labels \/ want.annots # store.annots)
       /\ Commits("status") => desired # store.status
       /\ (branch = "poll" /\ Commits("status")
             /\ desired.phase = store.status.phase /\ desired.conds = store.status.conds) =>
              /\ desired.updateTime # store.status.updateTime
              /\ desired.updateTime <= now
              /\ store'.status = [store.status EXCEPT !.updateTime = desired.updateTime]]_vars

(* C19 witness: a polling pass found labels, annotations and status as it
   desired them and ended without error and without a write. *)
C19_Witness ==
    /\ PassEnded
    /\ branch = "poll"
    /\ result.err = ""
    /\ writes = <<>>
    /\ want.labels = store.labels
    /\ want.annots = store.annots
    /\ desired = store.status
    /\ Translated(build.Result)

(* C20: after every call of updateLabelsAndAnnotations that returns no error
   the stored record carries the deletion finalizer, also when the desired
   labels and annotations were found equal to the stored ones: while a pass
   is in its status step, which follows such a call, the stored record has
   the finalizer. *)
C20_FinalizerAfterMeta ==
    (pc \in {"status_get", "status_update"} /\ store.exists) => store.finalizer

(* C24: the deletion branch is total: a pass on a record with a deletion
   timestamp, whatever its other fields, ends either without error and with
   the finalizer removed, or with an error it returns; it never aborts on a
   nil pipeline reference. *)
C24_DeletionTotal ==
    (PassEnded /\ branch = "delete") =>
        \/ result.err = "" /\ ~store.finalizer
        \/ result.err \in {"failed to delete Jenkins job", "update failed", "conflict"}

(* C25: no lost update on metadata: a metadata write the reconciler commits
   does not erase a label or annotation another writer committed after the
   pass's initial read; what the other writer stored is still in the record
   the write leaves (a write that cannot keep it fails with a conflict and
   commits nothing). *)
C25_NoLostMetadataUpdate ==
    [][Commits("meta") =>
         /\ Has(store.labels, ForeignKey) =>
               (Has(store'.labels, ForeignKey) /\ store'.labels[ForeignKey] = store.labels[ForeignKey])
         /\ Has(store.annots, ForeignKey) =>
               (Has(store'.annots, ForeignKey) /\ store'.annots[ForeignKey] = store.annots[ForeignKey])]_vars

(* the record carries no run identifier, or one that is not the decimal form
   of an integer, or that of a negative integer *)
NoUsableRunID(p) ==
    \/ ~Has(p.annots, JenkinsPipelineRunIDKey)
    \/ ~AtoiOK(p.annots[JenkinsPipelineRunIDKey])
    \/ Atoi(p.annots[JenkinsPipelineRunIDKey]) < 0

(* C26: a deletion pass on a record without run identifier annotation, or
   whose identifier is not a non-negative integer, calls nothing on the
   engine and returns the result of the one store write that strips the
   finalizer: no error and that write committed, or the write's error and
   nothing committed; no requeue hint either way. A deletion pass calls the
   engine only for a record whose identifier parses to a number >= 0, and
   then only deleteHistory. *)
C26_NoIdentifierNoEngineCall ==
    /\ (branch = "delete" /\ NoUsableRunID(pr)) =>
          /\ calls = {}
          /\ pc \in {"idle", "del_update"}
          /\ PassEnded =>
                /\ result.requeue = 0
                /\ \/ result.err = "" /\ Len(writes) = 1 /\ KindsWritten = {"finalize"}
                   \/ result.err \in {"update failed", "conflict"} /\ writes = <<>>
    /\ (branch = "delete" /\ calls # {}) =>
          /\ ~NoUsableRunID(pr)
          /\ OpsCalled = {"deleteHistory"}

(* C26 witness: a deletion pass on a record holding the finalizer and an
   identifier that is no number ended without error and without engine call,
   the finalizer gone from the stored record. *)
C26_Witness ==
    /\ PassEnded
    /\ branch = "delete"
    /\ Has(pr.annots, JenkinsPipelineRunIDKey)
    /\ pr.annots[JenkinsPipelineRunIDKey] = "x"
    /\ pr.finalizer
    /\ calls = {}
    /\ KindsWritten = {"finalize"}
    /\ ~store.finalizer
    /\ result.err = ""

-----------------------------------------------------------------------------
(* Properties of the synchronizer *)

SyncEnded == spc = "idle" /\ sync.done
IDsOf(bag) == {RunIDAnnotation(r) : r \in BagToSet(bag)}
RemoteIDsListed == {sync.list[i].ID : i \in 1..Len(sync.list)}
(* N: runs the engine reported; M: those of them a local record stood for
   when the pass began *)
NRemote == Len(sync.list)
MLocal == Cardinality(RemoteIDsListed \cap IDsOf(sync.atStart))

(* C5: with N runs reported and M < N of them already recorded locally, one
   pass (in which no step failed) creates exactly N-M records, each carrying
   the identifier of the run it stands for, and leaves the pipeline without the
   needs-sync marker. *)
C5_ExactlyMissingCreated ==
    (SyncEnded /\ sync.err = "" /\ ~sync.failed /\ MLocal < NRemote) =>
        /\ BagCardinality(sync.created) = NRemote - MLocal
        /\ IDsOf(sync.created) = RemoteIDsListed \ IDsOf(sync.atStart)
        /\ ~sync.marked

(* C8: a pass removes the needs-sync marker only if, at its end, every run the
   engine reported has a local record carrying its identifier. *)
C8_ClearOnlyWhenSynced ==
    (SyncEnded /\ sync.removed) => RemoteIDsListed \subseteq IDsOf(runs)

(* C21: a pass does not remove a marker that another writer set after the
   pass had listed the engine's runs: the marker a pass removes was set before
   its remote listing. *)
C21_NewerMarkerKept ==
    (SyncEnded /\ sync.removed) => ~sync.late

(* number of stored records that carry the run identifier id *)
RecordsOf(id) ==
    LET S == {r \in BagToSet(runs) : RunIDAnnotation(r) = id}
    IN BagCardinality([r \in S |-> runs[r]])

(* C23: after any number of consecutive synchronizer passes against the same
   remote run list, with no run-reconciler pass in between, the store holds at
   most one record per run identifier. *)
C23_OneRecordPerRun ==
    \A id \in RemoteIDs : RecordsOf(id) <= 1

-----------------------------------------------------------------------------
(* Properties of the builders *)

HasRefName(prSpec) == ~prSpec.SCM.isNil /\ prSpec.SCM.RefName # ""

(* C22: CreateScm returns an error exactly when the pipeline is multi-branch
   and the branch is empty, an SCM whose reference name is the branch when the
   pipeline is multi-branch and the branch is not empty, and no SCM for any
   other pipeline; getSCMRefName returns an error exactly when the run spec is
   multi-branch without a (non-empty) reference name, and the empty string
   for every spec that is not multi-branch; hence a record built by
   CreatePipelineRun from CreateScm's result has a non-empty reference name
   exactly when its pipeline is multi-branch. *)
C22_BuildersAgree ==
    /\ builder.step \in {"scm", "built", "built_resolved"} =>
          /\ (builder.scmErr # "") = (builder.Type = MultiBranchPipelineType /\ builder.branch = "")
          /\ (builder.Type = MultiBranchPipelineType /\ builder.branch # "") =>
                (~builder.scm.isNil /\ builder.scm.RefName = builder.branch)
          /\ builder.Type # MultiBranchPipelineType => builder.scm.isNil
    /\ builder.step \in {"resolved", "built_resolved"} =>
          /\ (builder.refErr # "") =
                (builder.prSpec.Type = MultiBranchPipelineType /\ ~HasRefName(builder.prSpec))
          /\ builder.prSpec.Type # MultiBranchPipelineType => builder.ref = ""
          /\ builder.refErr = "" /\ builder.prSpec.Type = MultiBranchPipelineType =>
                builder.ref = builder.prSpec.SCM.RefName
    /\ builder.step \in {"built", "built_resolved"} =>
          /\ HasRefName(builder.prSpec) = (builder.Type = MultiBranchPipelineType)
          /\ builder.prSpec.Type = builder.Type
    /\ builder.step = "built_resolved" =>
          /\ builder.refErr = ""
          /\ builder.ref = IF builder.Type = MultiBranchPipelineType THEN builder.branch ELSE ""

(* C22 witness: a record built for a multi-branch pipeline and a branch
   resolves to that branch. *)
C22_Witness ==
    /\ builder.step = "built_resolved"
    /\ builder.Type = MultiBranchPipelineType
    /\ builder.branch = "main"
    /\ builder.ref = "main"
    /\ builder.refErr = ""

====
